---- MODULE Spec2Model ----
(***************************************************************************)
(* GridPath model assembly: the static load requirement module             *)
(* (gridpath/system/load_balance/static_load_requirement.py), the          *)
(* transmission-target balance constraints, the exogenous availability     *)
(* type, the downward load-following reserves module, the operational      *)
(* timepoints of transmission lines and the assembly of the model from     *)
(* its modules, as state machines over the Pyomo components they declare,  *)
(* the tab files they read and write, and the instance that is             *)
(* constructed from them.                                                  *)
(***************************************************************************)
EXTENDS Integers, Sequences, FiniteSets, TLC

(***************************************************************************)
(* Bounds of the model.                                                    *)
(***************************************************************************)
\* largest finite load (MW) that appears in the inputs
MaxLoad == 1
\* largest number of rows of load_mw.tab / of the load query
MaxRows == 2

\* largest energy (MWh) of a transmission target, a delivery or a shortage
MaxMWh == 1

\* largest number of rows of project_availability_exogenous.tab
MaxAvlRows == 2
\* largest number of calls of availability_derate_rule that are followed
MaxCalls == 1

\* largest number of data rows of resources.tab
MaxLfRows == 2

\* a derate of 1, derates being counted in percent
DerateOne == 100

\* float("inf"), larger than every finite total the bounds allow
Inf == 1000000

(***************************************************************************)
(* Index sets defined by earlier modules and the universe of load          *)
(* components.                                                             *)
(***************************************************************************)
LOAD_ZONES == {"z1", "z2"}
TMPS == {1, 2}
LoadComponents == {"c1", "c2"}

Idx2 == LOAD_ZONES \X LoadComponents
Idx3 == LOAD_ZONES \X TMPS \X LoadComponents

(***************************************************************************)
(* Text of a tab-file field.  csv.writer formats a number with str();      *)
(* the data portal turns a numeric token back into a number and treats     *)
(* the token "." as "no value".                                            *)
(***************************************************************************)
Digits == <<"0", "1", "2", "3", "4">>
Dot == "."
\* the field csv.writer writes for None
Blank == ""

Format(n) == Digits[n + 1]
Parse(tok) == CHOOSE n \in 0..(Len(Digits) - 1) : Digits[n + 1] = tok

\* a database cell: NULL (None) or a value
None == << >>
Some(v) == <<v>>

\* functions from at most n elements of D into R
PartialFns(D, R, n) ==
    UNION {[S -> R] : S \in {T \in SUBSET D : Cardinality(T) <= n}}

LoadTokens == {Dot} \cup {Format(n) : n \in 0..MaxLoad}
DefaultTokens == {Dot, Format(MaxLoad)}

VARIABLES
    \* static_load_requirement
    pc_load,                    \* stage of the run
    directories,                \* scenario_directory, ..., subproblem, stage
    paths,                      \* the file names written and read
    err_load,                   \* exception that ended the run, or "none"
    db_loads,                   \* result of the load query
    db_ld_comp_defaults,        \* result of the load-component query
    load_mw_tab,                \* inputs/load_mw.tab
    load_level_defaults_tab,    \* inputs/load_level_defaults.tab
    lb_consumption,             \* d.load_balance_consumption_components
    lb_production,              \* d.load_balance_production_components
    m_components,               \* components declared on the abstract model
    data_portal,                \* what load_model_data has loaded
    LOAD_ZONE_LOAD_CMPNTS,
    load_level_default,
    LOAD_ZONE_TMP_LOAD_CMPNTS,
    component_static_load_mw,
    LZ_Load_in_Tmp

loadVars == <<pc_load, directories, paths, err_load, db_loads,
              db_ld_comp_defaults, load_mw_tab,
              load_level_defaults_tab, lb_consumption, lb_production,
              m_components, data_portal, LOAD_ZONE_LOAD_CMPNTS,
              load_level_default, LOAD_ZONE_TMP_LOAD_CMPNTS,
              component_static_load_mw, LZ_Load_in_Tmp>>

VARIABLES
    \* transmission_target_balance
    pc_tx,
    transmission_target_pos_dir_min_mwh,
    transmission_target_neg_dir_min_mwh,
    transmission_target_allow_violation,
    Transmission_Target_Shortage_Pos_Dir_MWh_Expression,
    Transmission_Target_Shortage_Neg_Dir_MWh_Expression,
    Transmission_Target_Pos_Dir_Constraint,
    Transmission_Target_Neg_Dir_Constraint,
    solution                    \* values of the variables at a feasible point

txVars == <<pc_tx, transmission_target_pos_dir_min_mwh,
            transmission_target_neg_dir_min_mwh,
            transmission_target_allow_violation,
            Transmission_Target_Shortage_Pos_Dir_MWh_Expression,
            Transmission_Target_Shortage_Neg_Dir_MWh_Expression,
            Transmission_Target_Pos_Dir_Constraint,
            Transmission_Target_Neg_Dir_Constraint, solution>>

VARIABLES
    \* availability_types/exogenous
    pc_avl,
    err_avl,
    availability_type,          \* column availability_type of projects.tab
    PRJ_OPR_TMPS,
    availability_tab,           \* inputs/project_availability_exogenous.tab
    avl_data_portal,
    AVL_EXOG,
    AVL_EXOG_OPR_TMPS,
    avl_exog_derate,
    derate_calls                \* calls of availability_derate_rule

avlVars == <<pc_avl, err_avl, availability_type, PRJ_OPR_TMPS,
             availability_tab, avl_data_portal, AVL_EXOG, AVL_EXOG_OPR_TMPS,
             avl_exog_derate, derate_calls>>

VARIABLES
    \* reserves/lf_reserves_down
    pc_lf,
    resources_tab,              \* inputs/resources.tab: headers and data rows
    footroom_variables,         \* d.footroom_variables
    required_reserve_modules    \* d.required_reserve_modules

lfVars == <<pc_lf, resources_tab, footroom_variables,
            required_reserve_modules>>

VARIABLES
    \* assembly of the abstract model from a list of modules
    pc_asm,
    err_asm,
    prereq_modules,             \* the modules added before the one tested
    asm_next,                   \* position of the module to add next
    asm_components              \* names of the components on the model

asmVars == <<pc_asm, err_asm, prereq_modules, asm_next, asm_components>>

VARIABLES
    \* transmission.operations.operations
    pc_txo,
    period,                     \* period of each timepoint
    TX_OPR_PRDS,                \* (line, period) pairs of the capacity module
    OPR_PRDS_BY_TX_LINE,
    TX_OPR_TMPS,
    TX_LINES_OPR_IN_TMP

txoVars == <<pc_txo, period, TX_OPR_PRDS, OPR_PRDS_BY_TX_LINE, TX_OPR_TMPS,
             TX_LINES_OPR_IN_TMP>>

vars == <<loadVars, txVars, avlVars, lfVars, asmVars, txoVars>>

\* The modules share no component: each is checked with the state of the
\* others at rest.
LoadAtRest ==
    /\ pc_load = "off"
    /\ directories = << >>
    /\ paths = << >>
    /\ err_load = "none"
    /\ db_loads = << >>
    /\ db_ld_comp_defaults = << >>
    /\ load_mw_tab = << >>
    /\ load_level_defaults_tab = << >>
    /\ lb_consumption = << >>
    /\ lb_production = << >>
    /\ m_components = << >>
    /\ data_portal = << >>
    /\ LOAD_ZONE_LOAD_CMPNTS = {}
    /\ load_level_default = << >>
    /\ LOAD_ZONE_TMP_LOAD_CMPNTS = {}
    /\ component_static_load_mw = << >>
    /\ LZ_Load_in_Tmp = << >>

AvlAtRest ==
    /\ pc_avl = "off"
    /\ err_avl = "none"
    /\ availability_type = << >>
    /\ PRJ_OPR_TMPS = {}
    /\ availability_tab = << >>
    /\ avl_data_portal = << >>
    /\ AVL_EXOG = {}
    /\ AVL_EXOG_OPR_TMPS = {}
    /\ avl_exog_derate = << >>
    /\ derate_calls = {}

LfAtRest ==
    /\ pc_lf = "off"
    /\ resources_tab = << >>
    /\ footroom_variables = << >>
    /\ required_reserve_modules = << >>

AsmAtRest ==
    /\ pc_asm = "off"
    /\ err_asm = "none"
    /\ prereq_modules = << >>
    /\ asm_next = 0
    /\ asm_components = {}

TxoAtRest ==
    /\ pc_txo = "off"
    /\ period = << >>
    /\ TX_OPR_PRDS = {}
    /\ OPR_PRDS_BY_TX_LINE = << >>
    /\ TX_OPR_TMPS = {}
    /\ TX_LINES_OPR_IN_TMP = << >>

TxAtRest ==
    /\ pc_tx = "off"
    /\ transmission_target_pos_dir_min_mwh = << >>
    /\ transmission_target_neg_dir_min_mwh = << >>
    /\ transmission_target_allow_violation = << >>
    /\ Transmission_Target_Shortage_Pos_Dir_MWh_Expression = << >>
    /\ Transmission_Target_Shortage_Neg_Dir_MWh_Expression = << >>
    /\ Transmission_Target_Pos_Dir_Constraint = << >>
    /\ Transmission_Target_Neg_Dir_Constraint = << >>
    /\ solution = << >>

(***************************************************************************)
(* static_load_requirement.py                                              *)
(***************************************************************************)
otherThanLoad == <<txVars, avlVars, lfVars, asmVars, txoVars>>

\* an empty data portal / an instance that has not been constructed
Empty == << >>

\* names that modules added earlier have registered on d, and the
\* components of those names on the model
PriorConsumptionComponents == {<< >>, <<"Earlier_Consumption_MW">>}
PriorProductionComponents == {<<"Earlier_Production_MW">>}

PriorComponents(dynamic_components) ==
    LET names ==
            {dynamic_components.load_balance_consumption_components[k] :
                 k \in 1..Len(
                     dynamic_components.load_balance_consumption_components)}
            \cup
            {dynamic_components.load_balance_production_components[k] :
                 k \in 1..Len(
                     dynamic_components.load_balance_production_components)}
    IN  [n \in names |-> <<"LOAD_ZONES", "TMPS">>]

\* the dynamic-components object d
DynamicComponents ==
    [load_balance_consumption_components |-> lb_consumption,
     load_balance_production_components |-> lb_production]

\* the name is registered with a different spelling
record_dynamic_components_misspelt(dynamic_components) ==
    [dynamic_components EXCEPT
         !.load_balance_consumption_components =
             Append(@, "LZ_Load_In_Tmp")]

\* the name is registered on every list of the object
record_dynamic_components_every_list(dynamic_components) ==
    [l \in DOMAIN dynamic_components |->
        Append(dynamic_components[l], "LZ_Load_in_Tmp")]

record_dynamic_components(dynamic_components) ==
    [dynamic_components EXCEPT
         !.load_balance_consumption_components =
             Append(@, "LZ_Load_in_Tmp")]

\* the components add_model_components declares, with their index sets
StaticLoadComponents ==
    [LOAD_ZONE_LOAD_CMPNTS |-> << >>,
     load_level_default |-> <<"LOAD_ZONE_LOAD_CMPNTS">>,
     LOAD_ZONE_TMP_LOAD_CMPNTS |-> << >>,
     component_static_load_mw |-> <<"LOAD_ZONE_TMP_LOAD_CMPNTS">>,
     LZ_Load_in_Tmp |-> <<"LOAD_ZONES", "TMPS">>]

\* os.path.join: empty components add nothing to the path
os_path_join(components) ==
    SelectSeq(components, LAMBDA c : c # "")

\* the file name write_model_inputs opens
write_model_inputs_filename(dirs, file) ==
    os_path_join(<<dirs.scenario_directory, dirs.weather_iteration,
                   dirs.hydro_iteration, dirs.availability_iteration,
                   dirs.subproblem, dirs.stage, "inputs", file>>)

\* the file name load_model_data hands to the data portal
load_model_data_filename(dirs, file) ==
    os_path_join(<<dirs.scenario_directory, dirs.weather_iteration,
                   dirs.hydro_iteration, dirs.availability_iteration,
                   dirs.subproblem, dirs.stage, "inputs", file>>)

\* the two csv files write_model_inputs writes: a load row is written as
\* it is, a NULL of the defaults as "."
write_load_mw(loads) ==
    [i \in DOMAIN loads |->
        IF loads[i] = None THEN Blank ELSE Format(loads[i][1])]

write_load_level_defaults(ld_comp_defaults) ==
    [i \in DOMAIN ld_comp_defaults |->
        IF ld_comp_defaults[i] = None THEN Dot
        ELSE Format(ld_comp_defaults[i][1])]

\* data_portal.load(filename, index, param): the rows give the index set,
\* the rows whose value is not "." give the parameter
portal_load(tab) ==
    [index |-> DOMAIN tab,
     param |-> [i \in {j \in DOMAIN tab : tab[j] # Dot} |-> Parse(tab[i])]]

\* the initial value is 0 instead of infinity
construct_load_level_default_zero(index, data) ==
    [i \in index |-> IF i \in DOMAIN data THEN data[i] ELSE 0]

\* Param(index, initialize=float("inf")) constructed with the loaded data:
\* the initial value on every index, then the data on top of it
construct_load_level_default(index, data) ==
    [i \in index |-> IF i \in DOMAIN data THEN data[i] ELSE Inf]

check_for_value_and_raise_value_error(param, value_to_check) ==
    IF param = value_to_check THEN "ValueError" ELSE "none"

\* the default falls back to the other load component's level
set_default_of_other_component(mod, lz, tmp, cmp) ==
    LET other == IF \E c \in LoadComponents :
                        c # cmp /\ <<lz, c>> \in mod.LOAD_ZONE_LOAD_CMPNTS
                 THEN CHOOSE c \in LoadComponents :
                        c # cmp /\ <<lz, c>> \in mod.LOAD_ZONE_LOAD_CMPNTS
                 ELSE cmp
    IN  [err |-> check_for_value_and_raise_value_error(
                     mod.load_level_default[<<lz, other>>], Inf),
         val |-> mod.load_level_default[<<lz, other>>]]

\* default of component_static_load_mw: [err, val]
set_default_and_warn_about_undefined_loads(mod, lz, tmp, cmp) ==
    [err |-> check_for_value_and_raise_value_error(
                 mod.load_level_default[<<lz, cmp>>], Inf),
     val |-> mod.load_level_default[<<lz, cmp>>]]

\* the parameter is declared with default=0
get_component_static_load_mw_default_zero(mod, i) ==
    IF i \in DOMAIN mod.data
    THEN [err |-> "none", val |-> mod.data[i]]
    ELSE [err |-> "none", val |-> 0]

\* mod.component_static_load_mw[lz, tmp, cmp]: the loaded value, else the
\* default
get_component_static_load_mw(mod, i) ==
    IF i \in DOMAIN mod.data
    THEN [err |-> "none", val |-> mod.data[i]]
    ELSE set_default_and_warn_about_undefined_loads(mod, i[1], i[2], i[3])

RECURSIVE static_load_loop(_, _, _, _, _)
static_load_loop(mod, todo, lz, tmp, lz_load_in_tmp) ==
    IF todo = {} THEN [err |-> "none", val |-> lz_load_in_tmp]
    ELSE LET i == CHOOSE j \in todo : TRUE
             got == get_component_static_load_mw(mod, i)
         IN  IF got.err # "none" THEN [err |-> got.err, val |-> 0]
             ELSE IF got.val = Inf THEN [err |-> "ValueError", val |-> 0]
             ELSE static_load_loop(
                      mod, todo \ {i}, lz, tmp,
                      IF i[1] = lz /\ i[2] = tmp
                      THEN lz_load_in_tmp + got.val
                      ELSE lz_load_in_tmp)

\* the zone/timepoint test of the loop is left out
RECURSIVE static_load_loop_unfiltered(_, _, _)
static_load_loop_unfiltered(mod, todo, lz_load_in_tmp) ==
    IF todo = {} THEN [err |-> "none", val |-> lz_load_in_tmp]
    ELSE LET i == CHOOSE j \in todo : TRUE
             got == get_component_static_load_mw(mod, i)
         IN  IF got.err # "none" THEN [err |-> got.err, val |-> 0]
             ELSE IF got.val = Inf THEN [err |-> "ValueError", val |-> 0]
             ELSE static_load_loop_unfiltered(
                      mod, todo \ {i}, lz_load_in_tmp + got.val)

total_static_load_unfiltered(mod, lz, tmp) ==
    static_load_loop_unfiltered(mod, mod.LOAD_ZONE_TMP_LOAD_CMPNTS, 0)

total_static_load_from_components_init(mod, lz, tmp) ==
    static_load_loop(mod, mod.LOAD_ZONE_TMP_LOAD_CMPNTS, lz, tmp, 0)

\* write_model_inputs: the query results go to the two tab files
WriteModelInputs ==
    /\ UNCHANGED otherThanLoad
    /\ pc_load = "db"
    /\ load_mw_tab' = write_load_mw(db_loads)
    /\ load_level_defaults_tab' = write_load_level_defaults(db_ld_comp_defaults)
    /\ paths' = [paths EXCEPT !.written =
                     {write_model_inputs_filename(directories, f) :
                          f \in {"load_mw.tab", "load_level_defaults.tab"}}]
    /\ pc_load' = "inputs"
    /\ UNCHANGED <<directories, err_load, db_loads, db_ld_comp_defaults,
                   lb_consumption, lb_production, m_components,
                   data_portal, LOAD_ZONE_LOAD_CMPNTS,
                   load_level_default, LOAD_ZONE_TMP_LOAD_CMPNTS,
                   component_static_load_mw, LZ_Load_in_Tmp>>

AddModelComponents ==
    /\ UNCHANGED otherThanLoad
    /\ pc_load = "inputs"
    /\ m_components' = StaticLoadComponents @@ m_components
    /\ LET d == record_dynamic_components(DynamicComponents)
       IN  /\ lb_consumption' = d.load_balance_consumption_components
           /\ lb_production' = d.load_balance_production_components
    /\ pc_load' = "components"
    /\ UNCHANGED <<directories, paths, err_load, db_loads,
                   db_ld_comp_defaults, load_mw_tab,
                   load_level_defaults_tab, data_portal,
                   LOAD_ZONE_LOAD_CMPNTS, load_level_default,
                   LOAD_ZONE_TMP_LOAD_CMPNTS, component_static_load_mw,
                   LZ_Load_in_Tmp>>

\* what reading a row whose load_mw field is empty ends in: the row is a
\* field short, or its value is not a number of the parameter's domain
EmptyFieldErrors == {"IndexError", "ValueError"}

\* load_model_data.  No instance comes of a load_mw.tab that has a row with
\* an empty load_mw field.
LoadModelData ==
    /\ UNCHANGED otherThanLoad
    /\ pc_load = "components"
    /\ paths' = [paths EXCEPT !.read =
                     {load_model_data_filename(directories, f) :
                          f \in {"load_mw.tab", "load_level_defaults.tab"}}]
    /\ IF \E i \in DOMAIN load_mw_tab : load_mw_tab[i] = Blank
       THEN /\ data_portal' = data_portal
            /\ pc_load' = "load_failed"
            /\ err_load' \in EmptyFieldErrors
       ELSE /\ data_portal' =
                   [load_mw |-> portal_load(load_mw_tab),
                    load_level_defaults |->
                        portal_load(load_level_defaults_tab)]
            /\ pc_load' = "data"
            /\ err_load' = err_load
    /\ UNCHANGED <<directories, db_loads, db_ld_comp_defaults, load_mw_tab,
                   load_level_defaults_tab, lb_consumption, lb_production,
                   m_components, LOAD_ZONE_LOAD_CMPNTS, load_level_default,
                   LOAD_ZONE_TMP_LOAD_CMPNTS, component_static_load_mw,
                   LZ_Load_in_Tmp>>

\* create_instance: the components are constructed in the order of their
\* declaration; the Expression rule runs for every (lz, tmp)
CreateInstance ==
    /\ UNCHANGED otherThanLoad
    /\ pc_load = "data"
    /\ LET mod == [LOAD_ZONE_LOAD_CMPNTS |->
                       data_portal.load_level_defaults.index,
                   load_level_default |->
                       construct_load_level_default(
                           data_portal.load_level_defaults.index,
                           data_portal.load_level_defaults.param),
                   LOAD_ZONE_TMP_LOAD_CMPNTS |-> data_portal.load_mw.index,
                   data |-> data_portal.load_mw.param]
           built == [c \in LOAD_ZONES \X TMPS |->
                        total_static_load_from_components_init(
                            mod, c[1], c[2])]
           failed == {c \in LOAD_ZONES \X TMPS : built[c].err # "none"}
       IN  /\ LOAD_ZONE_LOAD_CMPNTS' = mod.LOAD_ZONE_LOAD_CMPNTS
           /\ load_level_default' = mod.load_level_default
           /\ LOAD_ZONE_TMP_LOAD_CMPNTS' = mod.LOAD_ZONE_TMP_LOAD_CMPNTS
           /\ IF failed = {}
              THEN /\ component_static_load_mw' =
                         [i \in mod.LOAD_ZONE_TMP_LOAD_CMPNTS |->
                             get_component_static_load_mw(mod, i).val]
                   /\ LZ_Load_in_Tmp' = [c \in LOAD_ZONES \X TMPS |->
                                             built[c].val]
                   /\ pc_load' = "instance"
                   /\ err_load' = "none"
              ELSE /\ component_static_load_mw' = Empty
                   /\ LZ_Load_in_Tmp' = Empty
                   /\ pc_load' = "error"
                   /\ \E c \in failed : err_load' = built[c].err
    /\ UNCHANGED <<directories, paths, db_loads, db_ld_comp_defaults,
                   load_mw_tab, load_level_defaults_tab, lb_consumption,
                   lb_production, m_components, data_portal>>

\* the directories of a scenario with subproblems and without iterations
\* and stages
DirectoryArguments ==
    {[scenario_directory |-> "scenario", weather_iteration |-> "",
      hydro_iteration |-> "", availability_iteration |-> "",
      subproblem |-> "1", stage |-> ""]}

\* The scenario directory holds the two tab files, or the database holds the
\* rows that write_model_inputs will put there.  The load query keeps only
\* rows whose (load_zone, load_component) is in inputs_system_load_components,
\* the table the load-component query lists, and the rows of both queries
\* are of load zones of the scenario: every (lz, cmp) of a load row is a row
\* of load_level_defaults.tab.  The same holds of the files of a scenario
\* directory; there a load may also be "." (no value).
InitLoad ==
    /\ directories \in DirectoryArguments
    /\ paths = [written |-> {}, read |-> {}]
    /\ err_load = "none"
    /\ lb_consumption \in PriorConsumptionComponents
    /\ lb_production \in PriorProductionComponents
    /\ m_components = [LOAD_ZONES |-> << >>, TMPS |-> << >>]
                          @@ PriorComponents(DynamicComponents)
    /\ data_portal = Empty
    /\ LOAD_ZONE_LOAD_CMPNTS = {}
    /\ load_level_default = Empty
    /\ LOAD_ZONE_TMP_LOAD_CMPNTS = {}
    /\ component_static_load_mw = Empty
    /\ LZ_Load_in_Tmp = Empty
    /\ \/ /\ pc_load = "inputs"
          /\ db_loads = Empty
          /\ db_ld_comp_defaults = Empty
          /\ load_level_defaults_tab \in
                 PartialFns(Idx2, DefaultTokens, Cardinality(Idx2))
          /\ load_mw_tab \in
                 PartialFns({i \in Idx3 : <<i[1], i[3]>> \in
                                 DOMAIN load_level_defaults_tab},
                            LoadTokens, MaxRows)
       \/ /\ pc_load = "db"
          /\ load_mw_tab = Empty
          /\ load_level_defaults_tab = Empty
          /\ db_ld_comp_defaults \in
                 PartialFns(Idx2, {None, Some(MaxLoad)}, Cardinality(Idx2))
          /\ db_loads \in
                 PartialFns({i \in Idx3 : <<i[1], i[3]>> \in
                                 DOMAIN db_ld_comp_defaults},
                            {None} \cup {Some(v) : v \in 0..MaxLoad},
                            MaxRows)

NextLoad ==
    \/ WriteModelInputs
    \/ AddModelComponents
    \/ LoadModelData
    \/ CreateInstance

InitLoadOnly ==
    InitLoad /\ TxAtRest /\ AvlAtRest /\ LfAtRest /\ AsmAtRest /\ TxoAtRest

SpecLoad == InitLoadOnly /\ [][NextLoad]_vars

(***************************************************************************)
(* transmission_target_balance.py                                          *)
(***************************************************************************)
otherThanTx == <<loadVars, avlVars, lfVars, asmVars, txoVars>>

TRANSMISSION_TARGET_ZONES == {"tz1", "tz2"}

TRANSMISSION_TARGET_ZONE_BLN_TYPE_HRZS_WITH_TRANSMISSION_TARGET ==
    {<<z, "year", 2030>> : z \in TRANSMISSION_TARGET_ZONES}

MWh == 0..MaxMWh

\* an expression is a variable of the model or the constant 0
Zero == [var |-> "0"]
VarRef(name) == [var |-> name]

\* Constraint.Skip
Skip == [skip |-> TRUE, total |-> "", shortage |-> "", min |-> ""]

\* total + shortage >= min, by the names of the components
AtLeast(total, shortage, min) ==
    [skip |-> FALSE, total |-> total, shortage |-> shortage, min |-> min]

violation_pos_dir_expression_rule(mod, z, bt, hz) ==
    IF mod.transmission_target_allow_violation[z]
    THEN VarRef("Transmission_Target_Shortage_Pos_Dir_MWh")
    ELSE Zero

violation_neg_dir_expression_rule(mod, z, bt, hz) ==
    IF mod.transmission_target_allow_violation[z]
    THEN VarRef("Transmission_Target_Shortage_Neg_Dir_MWh")
    ELSE Zero

\* the right-hand side is the target of the other direction
transmission_target_pos_dir_rule_neg_min(mod, z, bt, hz) ==
    IF mod.transmission_target_pos_dir_min_mwh[<<z, bt, hz>>] = 0
    THEN Skip
    ELSE AtLeast("Total_Transmission_Target_Energy_Pos_Dir_MWh",
                 "Transmission_Target_Shortage_Pos_Dir_MWh_Expression",
                 "transmission_target_neg_dir_min_mwh")

transmission_target_pos_dir_rule(mod, z, bt, hz) ==
    IF mod.transmission_target_pos_dir_min_mwh[<<z, bt, hz>>] = 0
    THEN Skip
    ELSE AtLeast("Total_Transmission_Target_Energy_Pos_Dir_MWh",
                 "Transmission_Target_Shortage_Pos_Dir_MWh_Expression",
                 "transmission_target_pos_dir_min_mwh")

transmission_target_neg_dir_rule(mod, z, bt, hz) ==
    IF mod.transmission_target_neg_dir_min_mwh[<<z, bt, hz>>] = 0
    THEN Skip
    ELSE AtLeast("Total_Transmission_Target_Energy_Neg_Dir_MWh",
                 "Transmission_Target_Shortage_Neg_Dir_MWh_Expression",
                 "transmission_target_neg_dir_min_mwh")

\* the value of an expression at a point
ExpressionValue(e, point, i) ==
    IF e = Zero THEN 0 ELSE point[e.var][i]

\* a point satisfies a constraint of the instance
Satisfies(mod, point, c, i) ==
    IF c.skip THEN TRUE
    ELSE point[c.total][i] + ExpressionValue(mod[c.shortage][i], point, i)
             >= mod[c.min][i]

\* the variables and the delivered-energy expressions, all non-negative
Points ==
    [Total_Transmission_Target_Energy_Pos_Dir_MWh :
         [TRANSMISSION_TARGET_ZONE_BLN_TYPE_HRZS_WITH_TRANSMISSION_TARGET
              -> MWh],
     Total_Transmission_Target_Energy_Neg_Dir_MWh :
         [TRANSMISSION_TARGET_ZONE_BLN_TYPE_HRZS_WITH_TRANSMISSION_TARGET
              -> MWh],
     Transmission_Target_Shortage_Pos_Dir_MWh :
         [TRANSMISSION_TARGET_ZONE_BLN_TYPE_HRZS_WITH_TRANSMISSION_TARGET
              -> MWh],
     Transmission_Target_Shortage_Neg_Dir_MWh :
         [TRANSMISSION_TARGET_ZONE_BLN_TYPE_HRZS_WITH_TRANSMISSION_TARGET
              -> MWh]]

\* the components of the instance, by name
TxModel ==
    [transmission_target_pos_dir_min_mwh |->
         transmission_target_pos_dir_min_mwh,
     transmission_target_neg_dir_min_mwh |->
         transmission_target_neg_dir_min_mwh,
     transmission_target_allow_violation |->
         transmission_target_allow_violation,
     Transmission_Target_Shortage_Pos_Dir_MWh_Expression |->
         Transmission_Target_Shortage_Pos_Dir_MWh_Expression,
     Transmission_Target_Shortage_Neg_Dir_MWh_Expression |->
         Transmission_Target_Shortage_Neg_Dir_MWh_Expression]

\* add_model_components: the expression and constraint rules run for every
\* index of the set
TxAddModelComponents ==
    /\ UNCHANGED otherThanTx
    /\ pc_tx = "params"
    /\ Transmission_Target_Shortage_Pos_Dir_MWh_Expression' =
           [i \in TRANSMISSION_TARGET_ZONE_BLN_TYPE_HRZS_WITH_TRANSMISSION_TARGET
               |-> violation_pos_dir_expression_rule(TxModel, i[1], i[2], i[3])]
    /\ Transmission_Target_Shortage_Neg_Dir_MWh_Expression' =
           [i \in TRANSMISSION_TARGET_ZONE_BLN_TYPE_HRZS_WITH_TRANSMISSION_TARGET
               |-> violation_neg_dir_expression_rule(TxModel, i[1], i[2], i[3])]
    /\ Transmission_Target_Pos_Dir_Constraint' =
           [i \in TRANSMISSION_TARGET_ZONE_BLN_TYPE_HRZS_WITH_TRANSMISSION_TARGET
               |-> transmission_target_pos_dir_rule(TxModel, i[1], i[2], i[3])]
    /\ Transmission_Target_Neg_Dir_Constraint' =
           [i \in TRANSMISSION_TARGET_ZONE_BLN_TYPE_HRZS_WITH_TRANSMISSION_TARGET
               |-> transmission_target_neg_dir_rule(TxModel, i[1], i[2], i[3])]
    /\ pc_tx' = "built"
    /\ UNCHANGED <<transmission_target_pos_dir_min_mwh,
                   transmission_target_neg_dir_min_mwh,
                   transmission_target_allow_violation, solution>>

\* the solver returns a point that satisfies every constraint
TxSolve ==
    /\ UNCHANGED otherThanTx
    /\ pc_tx = "built"
    /\ \E point \in Points :
        /\ \A i \in TRANSMISSION_TARGET_ZONE_BLN_TYPE_HRZS_WITH_TRANSMISSION_TARGET :
            /\ Satisfies(TxModel, point,
                         Transmission_Target_Pos_Dir_Constraint[i], i)
            /\ Satisfies(TxModel, point,
                         Transmission_Target_Neg_Dir_Constraint[i], i)
        /\ solution' = point
    /\ pc_tx' = "solved"
    /\ UNCHANGED <<transmission_target_pos_dir_min_mwh,
                   transmission_target_neg_dir_min_mwh,
                   transmission_target_allow_violation,
                   Transmission_Target_Shortage_Pos_Dir_MWh_Expression,
                   Transmission_Target_Shortage_Neg_Dir_MWh_Expression,
                   Transmission_Target_Pos_Dir_Constraint,
                   Transmission_Target_Neg_Dir_Constraint>>

InitTx ==
    /\ pc_tx = "params"
    /\ transmission_target_pos_dir_min_mwh \in
           [TRANSMISSION_TARGET_ZONE_BLN_TYPE_HRZS_WITH_TRANSMISSION_TARGET
                -> MWh]
    /\ transmission_target_neg_dir_min_mwh \in
           [TRANSMISSION_TARGET_ZONE_BLN_TYPE_HRZS_WITH_TRANSMISSION_TARGET
                -> MWh]
    /\ transmission_target_allow_violation \in
           [TRANSMISSION_TARGET_ZONES -> BOOLEAN]
    /\ Transmission_Target_Shortage_Pos_Dir_MWh_Expression = << >>
    /\ Transmission_Target_Shortage_Neg_Dir_MWh_Expression = << >>
    /\ Transmission_Target_Pos_Dir_Constraint = << >>
    /\ Transmission_Target_Neg_Dir_Constraint = << >>
    /\ solution = << >>

NextTx ==
    \/ TxAddModelComponents
    \/ TxSolve

InitTxOnly ==
    InitTx /\ LoadAtRest /\ AvlAtRest /\ LfAtRest /\ AsmAtRest /\ TxoAtRest

SpecTx == InitTxOnly /\ [][NextTx]_vars

(***************************************************************************)
(* availability_types/exogenous.py                                         *)
(***************************************************************************)
otherThanAvl == <<loadVars, txVars, lfVars, asmVars, txoVars>>

PROJECTS == {"g1", "g2"}
AvailabilityTypes == {"exogenous", "binary"}
\* derates a file may list, in percent
DerateInputs == {-50, 0, 50, 100, 150}

\* the projects of projects.tab whose column has the given value
determine_project_subset(projects_tab, column, type) ==
    {g \in DOMAIN projects_tab[column] : projects_tab[column][g] = type}

\* the domain is the non-negative reals
PercentFraction_unbounded(v) == 0 <= v

PercentFraction(v) == 0 <= v /\ v <= DerateOne

\* every operational timepoint of every project
AVL_EXOG_OPR_TMPS_rule_unfiltered(mod) ==
    {p \in mod.PRJ_OPR_TMPS : TRUE}

\* rule of the set AVL_EXOG_OPR_TMPS
AVL_EXOG_OPR_TMPS_rule(mod) ==
    {p \in mod.PRJ_OPR_TMPS : p[1] \in mod.AVL_EXOG}

\* the default of the parameter is 0
construct_avl_exog_derate_default_zero(index, data) ==
    [i \in index |-> IF i \in DOMAIN data THEN data[i] ELSE 0]

\* Param(AVL_EXOG_OPR_TMPS, default=1) with the loaded data
construct_avl_exog_derate(index, data) ==
    [i \in index |-> IF i \in DOMAIN data THEN data[i] ELSE DerateOne]

\* the rule returns the share that is not available
availability_derate_rule_complement(mod, g, tmp) ==
    DerateOne - mod.avl_exog_derate[<<g, tmp>>]

availability_derate_rule(mod, g, tmp) ==
    mod.avl_exog_derate[<<g, tmp>>]

\* load_module_specific_data: the project subset, and the derates when the
\* file exists
AvlLoadModuleSpecificData ==
    /\ UNCHANGED otherThanAvl
    /\ pc_avl = "inputs"
    /\ avl_data_portal' =
           [AVL_EXOG |-> determine_project_subset(
                             [availability_type |-> availability_type],
                             "availability_type", "exogenous"),
            avl_exog_derate |->
                IF availability_tab.exists THEN availability_tab.rows
                ELSE << >>]
    /\ pc_avl' = "data"
    /\ UNCHANGED <<err_avl, availability_type, PRJ_OPR_TMPS,
                   availability_tab, AVL_EXOG, AVL_EXOG_OPR_TMPS,
                   avl_exog_derate, derate_calls>>

\* create_instance: the components declared by
\* add_module_specific_components are constructed in their order; a value
\* outside the domain of the parameter is a ValueError
AvlCreateInstance ==
    /\ UNCHANGED otherThanAvl
    /\ pc_avl = "data"
    /\ AVL_EXOG' = avl_data_portal.AVL_EXOG
    /\ LET opr == AVL_EXOG_OPR_TMPS_rule(
                      [PRJ_OPR_TMPS |-> PRJ_OPR_TMPS,
                       AVL_EXOG |-> avl_data_portal.AVL_EXOG])
           data == avl_data_portal.avl_exog_derate
       IN  /\ AVL_EXOG_OPR_TMPS' = opr
           /\ IF \A i \in DOMAIN data : PercentFraction(data[i])
              THEN /\ avl_exog_derate' = construct_avl_exog_derate(opr, data)
                   /\ pc_avl' = "instance"
                   /\ err_avl' = "none"
              ELSE /\ avl_exog_derate' = << >>
                   /\ pc_avl' = "error"
                   /\ err_avl' = "ValueError"
    /\ UNCHANGED <<availability_type, PRJ_OPR_TMPS, availability_tab,
                   avl_data_portal, derate_calls>>

\* the availability derate of a project in one of its timepoints is asked for
AvailabilityDerateRule ==
    /\ UNCHANGED otherThanAvl
    /\ pc_avl = "instance"
    /\ Cardinality(derate_calls) < MaxCalls
    /\ \E p \in AVL_EXOG_OPR_TMPS :
        derate_calls' = derate_calls \cup
            {[g |-> p[1], tmp |-> p[2],
              result |-> availability_derate_rule(
                             [avl_exog_derate |-> avl_exog_derate],
                             p[1], p[2])]}
    /\ UNCHANGED <<pc_avl, err_avl, availability_type, PRJ_OPR_TMPS,
                   availability_tab, avl_data_portal, AVL_EXOG,
                   AVL_EXOG_OPR_TMPS, avl_exog_derate>>

\* projects.tab, the operational timepoints of the projects and, when it
\* exists, the derate file with rows of operational timepoints of projects
\* of the exogenous type (the rows write_module_specific_model_inputs gets
\* from its query)
InitAvl ==
    /\ pc_avl = "inputs"
    /\ err_avl = "none"
    /\ availability_type \in [PROJECTS -> AvailabilityTypes]
    /\ PRJ_OPR_TMPS \in SUBSET (PROJECTS \X TMPS)
    /\ \/ availability_tab = [exists |-> FALSE, rows |-> << >>]
       \/ \E rows \in PartialFns(
                 {p \in PRJ_OPR_TMPS : availability_type[p[1]] = "exogenous"},
                 DerateInputs, MaxAvlRows) :
              availability_tab = [exists |-> TRUE, rows |-> rows]
    /\ avl_data_portal = << >>
    /\ AVL_EXOG = {}
    /\ AVL_EXOG_OPR_TMPS = {}
    /\ avl_exog_derate = << >>
    /\ derate_calls = {}

NextAvl ==
    \/ AvlLoadModuleSpecificData
    \/ AvlCreateInstance
    \/ AvailabilityDerateRule

InitAvlOnly ==
    InitAvl /\ LoadAtRest /\ TxAtRest /\ LfAtRest /\ AsmAtRest /\ TxoAtRest

SpecAvl == InitAvlOnly /\ [][NextAvl]_vars

(***************************************************************************)
(* reserves/lf_reserves_down.py                                            *)
(***************************************************************************)
otherThanLf == <<loadVars, txVars, avlVars, asmVars, txoVars>>

GENERATORS == {"r1", "r2"}
\* values of the column lf_reserves_down_zone: no zone, or a zone
LfZoneTokens == {Dot, "lfz1"}
ResourcesColumns == {"RESOURCES", "lf_reserves_down_zone"}

\* what the modules that ran earlier have put into d.footroom_variables
PriorFootroomVariables == {<< >>, <<"Provide_Regulation_Down_MW">>}

\* modules.auxiliary.auxiliary: no item of the list occurs twice
check_list_items_are_unique(l) ==
    \A i, j \in 1..Len(l) : i # j => l[i] # l[j]

\* modules.auxiliary.auxiliary: the positions of the list that hold the item
find_list_item_position(l, item) ==
    SelectSeq([k \in 1..Len(l) |-> k], LAMBDA k : l[k] = item)

\* the variable is given to every generator of the file
determine_row_unconditional(d_footroom_variables, headers, row) ==
    LET generator == row[find_list_item_position(headers, "RESOURCES")[1]]
        created == IF generator \notin DOMAIN d_footroom_variables
                   THEN d_footroom_variables @@ (generator :> << >>)
                   ELSE d_footroom_variables
    IN  [created EXCEPT
             ![generator] = Append(@, "Provide_LF_Reserves_Down_MW")]

\* the body of the loop over the rows of resources.tab
determine_row(d_footroom_variables, headers, row) ==
    LET generator == row[find_list_item_position(headers, "RESOURCES")[1]]
        created == IF generator \notin DOMAIN d_footroom_variables
                   THEN d_footroom_variables @@ (generator :> << >>)
                   ELSE d_footroom_variables
    IN  IF row[find_list_item_position(
                   headers, "lf_reserves_down_zone")[1]] # Dot
        THEN [created EXCEPT
                  ![generator] = Append(@, "Provide_LF_Reserves_Down_MW")]
        ELSE created

RECURSIVE resources_file_reader(_, _, _)
resources_file_reader(d_footroom_variables, headers, rows) ==
    IF rows = << >> THEN d_footroom_variables
    ELSE resources_file_reader(
             determine_row(d_footroom_variables, headers, Head(rows)),
             headers, Tail(rows))

\* determine_dynamic_components: the module is registered, then the file is
\* read; repeated column names end the run before any row is read
DetermineDynamicComponents ==
    /\ UNCHANGED otherThanLf
    /\ pc_lf = "start"
    /\ required_reserve_modules' =
           Append(required_reserve_modules, "lf_reserves_down")
    /\ IF check_list_items_are_unique(resources_tab.headers)
       THEN /\ footroom_variables' =
                   resources_file_reader(footroom_variables,
                                         resources_tab.headers,
                                         resources_tab.rows)
            /\ pc_lf' = "done"
       ELSE /\ footroom_variables' = footroom_variables
            /\ pc_lf' = "error"
    /\ UNCHANGED resources_tab

\* a row of the file with the fields in the order of the headers
ResourcesRow(headers, generator, zone) ==
    [k \in 1..Len(headers) |->
        IF headers[k] = "RESOURCES" THEN generator ELSE zone]

InitLf ==
    /\ pc_lf = "start"
    /\ required_reserve_modules \in {<< >>, <<"regulation_down">>}
    /\ footroom_variables \in
           PartialFns(GENERATORS, PriorFootroomVariables,
                      Cardinality(GENERATORS))
    /\ \E headers \in [1..2 -> ResourcesColumns] :
       \E n \in 0..MaxLfRows :
       \E data \in [1..n -> GENERATORS \X LfZoneTokens] :
           resources_tab =
               [headers |-> headers,
                rows |-> [k \in 1..n |->
                             ResourcesRow(headers, data[k][1], data[k][2])]]

NextLf == DetermineDynamicComponents

InitLfOnly ==
    InitLf /\ LoadAtRest /\ TxAtRest /\ AvlAtRest /\ AsmAtRest /\ TxoAtRest

SpecLf == InitLfOnly /\ [][NextLf]_vars

(***************************************************************************)
(* Assembly of the model: tests/.../op_type_dependent/test_regulation_up.py *)
(* and the components static_load_requirement.py refers to                 *)
(***************************************************************************)
otherThanAsm == <<loadVars, txVars, avlVars, lfVars, txoVars>>

PREREQUISITE_MODULE_NAMES ==
    <<"temporal.operations.timepoints",
      "temporal.investment.periods",
      "temporal.operations.horizons",
      "geography.load_zones",
      "geography.regulation_up_balancing_areas",
      "project",
      "project.capacity.capacity",
      "project.availability.availability",
      "project.fuels",
      "project.operations",
      "project.operations.reserves.regulation_up",
      "geography.water_network",
      "system.water.water_system_params",
      "system.water.water_flows",
      "system.water.water_nodes",
      "system.water.reservoirs",
      "system.water.water_node_balance",
      "system.water.powerhouses",
      "system.load_balance.static_load_requirement",
      "project.capacity.potential",
      "project.operations.operational_types">>

NAME_OF_MODULE_BEING_TESTED ==
    "project.operations.reserves.op_type_dependent.regulation_up"

StaticLoadRequirement == "system.load_balance.static_load_requirement"

\* what the other modules define: only the two sets static_load_requirement
\* consumes are listed
OtherModuleDefines(mdl) ==
    CASE mdl = "geography.load_zones" -> {"LOAD_ZONES"}
      [] mdl = "temporal.operations.timepoints" -> {"TMPS"}
      [] OTHER -> {}

\* the components of the model a module's add_model_components defines
ModuleDefines(mdl) ==
    IF mdl = StaticLoadRequirement
    THEN DOMAIN StaticLoadComponents
    ELSE OtherModuleDefines(mdl)

\* static_load_requirement also refers to a set no listed module defines
ModuleUses_undefined_set(mdl) ==
    IF mdl = StaticLoadRequirement
    THEN {"LOAD_ZONES", "TMPS", "LOAD_ZONE_PRDS"}
    ELSE {}

\* the components of earlier modules that add_model_components reads from
\* the model (m.LOAD_ZONES, m.TMPS)
ModuleUses(mdl) ==
    IF mdl = StaticLoadRequirement THEN {"LOAD_ZONES", "TMPS"} ELSE {}

\* add_model_components of one module on a model with the given components:
\* reading a component the model does not have raises AttributeError
add_model_components(mdl, components) ==
    IF ModuleUses(mdl) \subseteq components
    THEN [err |-> "none", components |-> components \cup ModuleDefines(mdl)]
    ELSE [err |-> "AttributeError", components |-> components]

\* the modules create_abstract_model adds, in order
ModulesToAdd == Append(prereq_modules, NAME_OF_MODULE_BEING_TESTED)

\* create_abstract_model: one module is added per step
CreateAbstractModelStep ==
    /\ UNCHANGED otherThanAsm
    /\ pc_asm = "adding"
    /\ LET added == add_model_components(ModulesToAdd[asm_next],
                                         asm_components)
       IN  /\ asm_components' = added.components
           /\ err_asm' = added.err
           /\ IF added.err # "none"
              THEN pc_asm' = "error" /\ asm_next' = asm_next
              ELSE /\ asm_next' = asm_next + 1
                   /\ pc_asm' = IF asm_next = Len(ModulesToAdd)
                                THEN "done" ELSE "adding"
    /\ UNCHANGED prereq_modules

\* the list with static_load_requirement at position k
StaticLoadAt(k) ==
    LET rest == SelectSeq(PREREQUISITE_MODULE_NAMES,
                          LAMBDA n : n # StaticLoadRequirement)
    IN  SubSeq(rest, 1, k - 1) \o <<StaticLoadRequirement>>
            \o SubSeq(rest, k, Len(rest))

\* lists of prerequisite modules: that of the test and those that have
\* static_load_requirement at another place
ModuleOrders == {StaticLoadAt(k) : k \in 1..Len(PREREQUISITE_MODULE_NAMES)}

InitAsm ==
    /\ pc_asm = "adding"
    /\ err_asm = "none"
    /\ prereq_modules \in ModuleOrders
    /\ asm_next = 1
    /\ asm_components = {}

NextAsm == CreateAbstractModelStep

InitAsmOnly ==
    InitAsm /\ LoadAtRest /\ TxAtRest /\ AvlAtRest /\ LfAtRest /\ TxoAtRest

\* the loop of create_abstract_model goes on until the last module is added
\* or one raises
SpecAsm == InitAsmOnly /\ [][NextAsm]_vars /\ WF_vars(NextAsm)

(***************************************************************************)
(* transmission.operations.operations, as tests/transmission/operations/   *)
(* test_operations.py reads it                                             *)
(***************************************************************************)
otherThanTxo == <<loadVars, txVars, avlVars, lfVars, asmVars>>

TX_LINES == {"Tx1", "Tx_New"}
TIMEPOINTS == {20200101, 20200102, 20300101}
PERIODS == {2020, 2030}

\* the timepoints of a period
TMPS_IN_PRD(mod, p) == {tmp \in TIMEPOINTS : mod.period[tmp] = p}

\* the periods in which a line is operational
OPR_PRDS_BY_TX_LINE_rule(mod, tx) ==
    {i[2] : i \in {j \in mod.TX_OPR_PRDS : j[1] = tx}}

\* every timepoint counts for a line that is operational in some period
TX_OPR_TMPS_rule_any_period(mod) ==
    UNION {{<<i[1], tmp>> : tmp \in TIMEPOINTS} : i \in mod.TX_OPR_PRDS}

\* the timepoints of the periods in which a line is operational
TX_OPR_TMPS_rule(mod) ==
    UNION {{<<i[1], tmp>> : tmp \in TMPS_IN_PRD(mod, i[2])} :
               i \in mod.TX_OPR_PRDS}

\* the lines that are operational in a timepoint
TX_LINES_OPR_IN_TMP_rule(mod, tmp) ==
    {i[1] : i \in {j \in mod.TX_OPR_TMPS : j[2] = tmp}}

\* create_instance: the three sets are constructed from the periods of the
\* timepoints and the operational periods of the lines
TxoCreateInstance ==
    /\ UNCHANGED otherThanTxo
    /\ pc_txo = "data"
    /\ LET mod == [period |-> period, TX_OPR_PRDS |-> TX_OPR_PRDS]
           built == mod @@ [TX_OPR_TMPS |-> TX_OPR_TMPS_rule(mod)]
       IN  /\ OPR_PRDS_BY_TX_LINE' =
                  [tx \in TX_LINES |-> OPR_PRDS_BY_TX_LINE_rule(mod, tx)]
           /\ TX_OPR_TMPS' = built.TX_OPR_TMPS
           /\ TX_LINES_OPR_IN_TMP' =
                  [tmp \in TIMEPOINTS |->
                      TX_LINES_OPR_IN_TMP_rule(built, tmp)]
    /\ pc_txo' = "instance"
    /\ UNCHANGED <<period, TX_OPR_PRDS>>

InitTxo ==
    /\ pc_txo = "data"
    /\ period \in [TIMEPOINTS -> PERIODS]
    /\ TX_OPR_PRDS \in SUBSET (TX_LINES \X PERIODS)
    /\ OPR_PRDS_BY_TX_LINE = Empty
    /\ TX_OPR_TMPS = {}
    /\ TX_LINES_OPR_IN_TMP = Empty

NextTxo == TxoCreateInstance

InitTxoOnly ==
    InitTxo /\ LoadAtRest /\ TxAtRest /\ AvlAtRest /\ LfAtRest /\ AsmAtRest

SpecTxo == InitTxoOnly /\ [][NextTxo]_vars

(***************************************************************************)
(* Properties of the static load requirement.                              *)
(***************************************************************************)
AddModelComponentsHasRun ==
    pc_load \in {"components", "data", "instance", "error"}

Constructed == pc_load \in {"instance", "error"}

\* C1: once add_model_components has run, the consumption list contains
\* "LZ_Load_in_Tmp", the model has a component of that name indexed by
\* LOAD_ZONES x TMPS, and every registered name is a component of the model.
C1_RegisteredNameResolves ==
    AddModelComponentsHasRun =>
        /\ \E k \in 1..Len(lb_consumption) :
               lb_consumption[k] = "LZ_Load_in_Tmp"
        /\ "LZ_Load_in_Tmp" \in DOMAIN m_components
        /\ m_components["LZ_Load_in_Tmp"] = <<"LOAD_ZONES", "TMPS">>
        /\ \A k \in 1..Len(lb_consumption) :
               lb_consumption[k] \in DOMAIN m_components

C1_Witness ==
    /\ pc_load = "components"
    /\ lb_consumption = <<"Earlier_Consumption_MW", "LZ_Load_in_Tmp">>
    /\ "LZ_Load_in_Tmp" \in DOMAIN m_components

RECURSIVE SumOver(_, _)
SumOver(f, S) ==
    IF S = {} THEN 0
    ELSE LET i == CHOOSE j \in S : TRUE IN f[i] + SumOver(f, S \ {i})

ComponentsOf(lz, tmp) ==
    {i \in LOAD_ZONE_TMP_LOAD_CMPNTS : i[1] = lz /\ i[2] = tmp}

\* C2: in an instance, LZ_Load_in_Tmp[lz, tmp] is the sum of
\* component_static_load_mw over exactly the entries of
\* LOAD_ZONE_TMP_LOAD_CMPNTS of that zone and timepoint.
C2_TotalIsSumOfOwnComponents ==
    pc_load = "instance" =>
        \A lz \in LOAD_ZONES, tmp \in TMPS :
            LZ_Load_in_Tmp[<<lz, tmp>>] =
                SumOver(component_static_load_mw, ComponentsOf(lz, tmp))

\* two components of one zone and timepoint add up, and contribute nothing
\* to the other zones and timepoints
C2_Witness ==
    /\ pc_load = "instance"
    /\ \E lz \in LOAD_ZONES, tmp \in TMPS :
        /\ Cardinality(ComponentsOf(lz, tmp)) = 2
        /\ \A i \in ComponentsOf(lz, tmp) : component_static_load_mw[i] > 0
        /\ LZ_Load_in_Tmp[<<lz, tmp>>] = 2 * MaxLoad
        /\ \A c \in (LOAD_ZONES \X TMPS) \ {<<lz, tmp>>} :
               LZ_Load_in_Tmp[c] = 0

NoLoadSupplied(i) == i \in DOMAIN load_mw_tab /\ load_mw_tab[i] = Dot

\* C3: in an instance, an index without a supplied load has the value of
\* load_level_default[lz, cmp], an index with a supplied load has the
\* supplied value; the default of an index with a supplied load is not
\* consulted: when every index without a load has a finite default, the
\* instance is built whatever the other defaults are.
C3_DefaultOnlyWhereNoLoadSupplied ==
    /\ pc_load = "instance" =>
           \A i \in LOAD_ZONE_TMP_LOAD_CMPNTS :
               IF NoLoadSupplied(i)
               THEN component_static_load_mw[i] =
                        load_level_default[<<i[1], i[3]>>]
               ELSE component_static_load_mw[i] = Parse(load_mw_tab[i])
    /\ (Constructed /\ \A i \in DOMAIN load_mw_tab :
            NoLoadSupplied(i) => load_level_default[<<i[1], i[3]>>] # Inf)
           => pc_load = "instance"

C3_Witness ==
    /\ pc_load = "instance"
    /\ \E i, j \in LOAD_ZONE_TMP_LOAD_CMPNTS :
        /\ NoLoadSupplied(i)
        /\ component_static_load_mw[i] = MaxLoad
        /\ ~NoLoadSupplied(j)
        /\ load_level_default[<<j[1], j[3]>>] = Inf
        /\ component_static_load_mw[j] = 0

\* C4: when an index without a supplied load has an infinite
\* load_level_default, building the static load raises a ValueError and no
\* LZ_Load_in_Tmp value exists.
C4_InfiniteDefaultRaises ==
    (Constructed /\ \E i \in DOMAIN load_mw_tab :
         NoLoadSupplied(i) /\ load_level_default[<<i[1], i[3]>>] = Inf)
        => /\ pc_load = "error"
           /\ err_load = "ValueError"
           /\ LZ_Load_in_Tmp = Empty

C4_Witness ==
    /\ pc_load = "error"
    /\ err_load = "ValueError"
    /\ \E i, j \in DOMAIN load_mw_tab :
        /\ NoLoadSupplied(i)
        /\ load_level_default[<<i[1], i[3]>>] = Inf
        /\ ~NoLoadSupplied(j)

\* C5: a (lz, cmp) of LOAD_ZONE_LOAD_CMPNTS without a value in
\* load_level_defaults.tab has load_level_default infinity, the others have
\* the value of the file; a NULL of the database is written as "." and so
\* ends up as infinity too.
C5_UndefinedDefaultIsInfinity ==
    /\ Constructed =>
           /\ LOAD_ZONE_LOAD_CMPNTS = DOMAIN load_level_defaults_tab
           /\ \A p \in LOAD_ZONE_LOAD_CMPNTS :
                  load_level_default[p] =
                      IF load_level_defaults_tab[p] = Dot THEN Inf
                      ELSE Parse(load_level_defaults_tab[p])
    /\ pc_load \in {"inputs", "components", "data"} =>
           \A p \in DOMAIN db_ld_comp_defaults :
               db_ld_comp_defaults[p] = None =>
                   load_level_defaults_tab[p] = Dot
    /\ Constructed =>
           \A p \in DOMAIN db_ld_comp_defaults :
               load_level_default[p] =
                   IF db_ld_comp_defaults[p] = None THEN Inf
                   ELSE db_ld_comp_defaults[p][1]

C5_Witness ==
    /\ Constructed
    /\ \E p, q \in DOMAIN db_ld_comp_defaults :
        /\ db_ld_comp_defaults[p] = None
        /\ load_level_defaults_tab[p] = Dot
        /\ load_level_default[p] = Inf
        /\ db_ld_comp_defaults[q] # None
        /\ load_level_default[q] = MaxLoad

(***************************************************************************)
(* Properties of the transmission-target balance.                          *)
(***************************************************************************)
ShortagePos(i) ==
    IF transmission_target_allow_violation[i[1]]
    THEN solution.Transmission_Target_Shortage_Pos_Dir_MWh[i]
    ELSE 0

ShortageNeg(i) ==
    IF transmission_target_allow_violation[i[1]]
    THEN solution.Transmission_Target_Shortage_Neg_Dir_MWh[i]
    ELSE 0

\* C6: at a feasible point, for each direction and every index whose minimum
\* target of that direction is not zero, the delivered energy of the
\* direction plus its shortage expression is at least the minimum target of
\* the direction; each constraint names components of its own direction only.
C6_TargetMetOrShort ==
    /\ pc_tx = "solved" =>
        \A i \in TRANSMISSION_TARGET_ZONE_BLN_TYPE_HRZS_WITH_TRANSMISSION_TARGET :
            /\ transmission_target_pos_dir_min_mwh[i] # 0 =>
                   solution.Total_Transmission_Target_Energy_Pos_Dir_MWh[i]
                       + ShortagePos(i)
                       >= transmission_target_pos_dir_min_mwh[i]
            /\ transmission_target_neg_dir_min_mwh[i] # 0 =>
                   solution.Total_Transmission_Target_Energy_Neg_Dir_MWh[i]
                       + ShortageNeg(i)
                       >= transmission_target_neg_dir_min_mwh[i]
    /\ pc_tx \in {"built", "solved"} =>
        \A i \in TRANSMISSION_TARGET_ZONE_BLN_TYPE_HRZS_WITH_TRANSMISSION_TARGET :
            /\ Transmission_Target_Pos_Dir_Constraint[i] \in
                   {Skip,
                    AtLeast("Total_Transmission_Target_Energy_Pos_Dir_MWh",
                            "Transmission_Target_Shortage_Pos_Dir_MWh_Expression",
                            "transmission_target_pos_dir_min_mwh")}
            /\ Transmission_Target_Neg_Dir_Constraint[i] \in
                   {Skip,
                    AtLeast("Total_Transmission_Target_Energy_Neg_Dir_MWh",
                            "Transmission_Target_Shortage_Neg_Dir_MWh_Expression",
                            "transmission_target_neg_dir_min_mwh")}

\* a positive target met only thanks to the shortage variable, next to a
\* zone that may not fall short, with the negative direction skipped
C6_Witness ==
    /\ pc_tx = "solved"
    /\ \E i, j \in TRANSMISSION_TARGET_ZONE_BLN_TYPE_HRZS_WITH_TRANSMISSION_TARGET :
        /\ transmission_target_pos_dir_min_mwh[i] = MaxMWh
        /\ transmission_target_allow_violation[i[1]]
        /\ solution.Total_Transmission_Target_Energy_Pos_Dir_MWh[i] = 0
        /\ solution.Transmission_Target_Shortage_Pos_Dir_MWh[i] = MaxMWh
        /\ transmission_target_neg_dir_min_mwh[i] = 0
        /\ Transmission_Target_Neg_Dir_Constraint[i] = Skip
        /\ ~transmission_target_allow_violation[j[1]]
        /\ transmission_target_neg_dir_min_mwh[j] = MaxMWh
        /\ solution.Total_Transmission_Target_Energy_Neg_Dir_MWh[j] = MaxMWh

(***************************************************************************)
(* Properties of the exogenous availability type.                          *)
(***************************************************************************)
AvlConstructed == pc_avl \in {"instance", "error"}

Listed(p) == availability_tab.exists /\ p \in DOMAIN availability_tab.rows

\* C7: in an instance every derate of an operational timepoint of an
\* exogenous project is between 0 and 1; when the file lists a value outside
\* this range no instance is built and no derate is loaded.
C7_DerateIsPercentFraction ==
    /\ pc_avl = "instance" =>
           \A p \in AVL_EXOG_OPR_TMPS :
               0 <= avl_exog_derate[p] /\ avl_exog_derate[p] <= DerateOne
    /\ (AvlConstructed /\ \E p \in PRJ_OPR_TMPS :
            Listed(p) /\ (availability_tab.rows[p] < 0
                          \/ availability_tab.rows[p] > DerateOne))
           => /\ pc_avl = "error"
              /\ err_avl = "ValueError"
              /\ avl_exog_derate = << >>

\* the bounds 0 and 1 are loaded from the file
C7_Witness ==
    /\ pc_avl = "instance"
    /\ \E p, q \in AVL_EXOG_OPR_TMPS :
        /\ Listed(p)
        /\ avl_exog_derate[p] = 0
        /\ Listed(q)
        /\ avl_exog_derate[q] = DerateOne

\* C8: AVL_EXOG_OPR_TMPS has no pair of a project outside AVL_EXOG, no pair
\* outside PRJ_OPR_TMPS, and every pair of PRJ_OPR_TMPS of a project of
\* AVL_EXOG.
C8_ExogenousOperationalTimepoints ==
    AvlConstructed =>
        /\ \A p \in AVL_EXOG_OPR_TMPS : p[1] \in AVL_EXOG
        /\ AVL_EXOG_OPR_TMPS \subseteq PRJ_OPR_TMPS
        /\ \A p \in PRJ_OPR_TMPS :
               p[1] \in AVL_EXOG => p \in AVL_EXOG_OPR_TMPS

C8_Witness ==
    /\ pc_avl = "instance"
    /\ \E p, q \in PRJ_OPR_TMPS :
        /\ p[1] \in AVL_EXOG
        /\ p \in AVL_EXOG_OPR_TMPS
        /\ q[1] \notin AVL_EXOG
        /\ q \notin AVL_EXOG_OPR_TMPS

\* C9: after the data are loaded AVL_EXOG is the set of projects whose
\* availability_type is "exogenous"; in the instance, without the file
\* every derate is 1, with the file a pair that is not listed has derate 1
\* and a listed pair has the listed value.
C9_DerateFromFileOrOne ==
    /\ pc_avl \in {"data", "instance", "error"} =>
           avl_data_portal.AVL_EXOG =
               {g \in PROJECTS : availability_type[g] = "exogenous"}
    /\ AvlConstructed =>
           AVL_EXOG = {g \in PROJECTS : availability_type[g] = "exogenous"}
    /\ pc_avl = "instance" =>
           \A p \in AVL_EXOG_OPR_TMPS :
               avl_exog_derate[p] =
                   IF Listed(p) THEN availability_tab.rows[p] ELSE DerateOne
    /\ (AvlConstructed /\ ~availability_tab.exists) => pc_avl = "instance"

C9_Witness ==
    /\ pc_avl = "instance"
    /\ availability_tab.exists
    /\ \E p, q \in AVL_EXOG_OPR_TMPS :
        /\ Listed(p)
        /\ avl_exog_derate[p] = 50
        /\ ~Listed(q)
        /\ avl_exog_derate[q] = DerateOne

\* C10: availability_derate_rule returns avl_exog_derate[g, tmp] itself: 0
\* for a project fully derated in the timepoint, 1 for a project without a
\* specified derate.
C10_RuleReturnsDerate ==
    \A c \in derate_calls :
        /\ c.result = avl_exog_derate[<<c.g, c.tmp>>]
        /\ (Listed(<<c.g, c.tmp>>) /\ availability_tab.rows[<<c.g, c.tmp>>] = 0)
               => c.result = 0
        /\ ~Listed(<<c.g, c.tmp>>) => c.result = DerateOne

C10_Witness ==
    \E c \in derate_calls :
        /\ Listed(<<c.g, c.tmp>>)
        /\ availability_tab.rows[<<c.g, c.tmp>>] = 0
        /\ c.result = 0

\* the step in which add_model_components calls record_dynamic_components
RecordDynamicComponentsCalled ==
    pc_load = "inputs" /\ pc_load' = "components"

Occurrences(name, list) ==
    Cardinality({k \in 1..Len(list) : list[k] = name})

\* C12: the call of record_dynamic_components puts one entry,
\* "LZ_Load_in_Tmp", at the end of the consumption list, leaves the entries
\* that were there in place and leaves the other list of the object as it
\* was; after the one call of add_model_components the name occurs once.
C12_RecordAppendsOnceAndNothingElse ==
    /\ [][RecordDynamicComponentsCalled =>
              /\ Len(lb_consumption') = Len(lb_consumption) + 1
              /\ lb_consumption'[Len(lb_consumption')] = "LZ_Load_in_Tmp"
              /\ \A k \in 1..Len(lb_consumption) :
                     lb_consumption'[k] = lb_consumption[k]
              /\ lb_production' = lb_production]_vars
    /\ [](AddModelComponentsHasRun =>
              Occurrences("LZ_Load_in_Tmp", lb_consumption) = 1)

C12_Witness ==
    /\ pc_load = "components"
    /\ Len(lb_consumption) = 2
    /\ lb_consumption[1] = "Earlier_Consumption_MW"
    /\ lb_consumption[2] = "LZ_Load_in_Tmp"
    /\ lb_production = <<"Earlier_Production_MW">>

(***************************************************************************)
(* Properties of the downward load-following reserves module.              *)
(***************************************************************************)
\* the field of a row under the column of the given name
FieldOf(row, column) ==
    row[CHOOSE k \in 1..Len(resources_tab.headers) :
            resources_tab.headers[k] = column]

\* the rows of the file that name generator g and give it a zone
RowsWithZone(g) ==
    {k \in 1..Len(resources_tab.rows) :
        /\ FieldOf(resources_tab.rows[k], "RESOURCES") = g
        /\ FieldOf(resources_tab.rows[k], "lf_reserves_down_zone") # Dot}

\* C11: once determine_dynamic_components has read resources.tab, every
\* generator named in a row is a key of d.footroom_variables, and its list
\* holds "Provide_LF_Reserves_Down_MW" once for each of its rows whose
\* lf_reserves_down_zone is not ".", and for no other row.
C11_FootroomVariablesFollowZone ==
    pc_lf = "done" =>
        \A k \in 1..Len(resources_tab.rows) :
            LET g == FieldOf(resources_tab.rows[k], "RESOURCES")
            IN  /\ g \in DOMAIN footroom_variables
                /\ Occurrences("Provide_LF_Reserves_Down_MW",
                               footroom_variables[g])
                       = Cardinality(RowsWithZone(g))

C11_Witness ==
    /\ pc_lf = "done"
    /\ Len(resources_tab.rows) = 2
    /\ resources_tab.headers[1] = "lf_reserves_down_zone"
    /\ \E k, j \in 1..2 :
           /\ FieldOf(resources_tab.rows[k], "lf_reserves_down_zone") = Dot
           /\ FieldOf(resources_tab.rows[j], "lf_reserves_down_zone") # Dot
           /\ FieldOf(resources_tab.rows[k], "RESOURCES")
                  # FieldOf(resources_tab.rows[j], "RESOURCES")
           /\ footroom_variables[FieldOf(resources_tab.rows[k], "RESOURCES")]
                  = << >>
           /\ footroom_variables[FieldOf(resources_tab.rows[j], "RESOURCES")]
                  = <<"Provide_Regulation_Down_MW",
                      "Provide_LF_Reserves_Down_MW">>

(***************************************************************************)
(* Properties of the assembly.                                             *)
(***************************************************************************)
OrderOfTheTest == prereq_modules = PREREQUISITE_MODULE_NAMES

\* the positions of static_load_requirement in the list of modules
StaticLoadPositions ==
    {k \in 1..Len(ModulesToAdd) : ModulesToAdd[k] = StaticLoadRequirement}

\* C13: in the order of the test every module that defines a component
\* static_load_requirement consumes (LOAD_ZONES, TMPS) comes before it, no
\* module after it defines one, no module raises while the components are
\* added, and the assembly runs to its end.
C13_PrerequisitesComeFirst ==
    /\ [](OrderOfTheTest =>
            /\ err_asm = "none"
            /\ pc_asm # "error"
            /\ \A k \in StaticLoadPositions :
                   /\ \A c \in ModuleUses(StaticLoadRequirement) :
                          \E j \in 1..(k - 1) :
                              c \in ModuleDefines(ModulesToAdd[j])
                   /\ \A j \in (k + 1)..Len(ModulesToAdd) :
                          ModuleDefines(ModulesToAdd[j])
                              \cap ModuleUses(StaticLoadRequirement) = {}
                   /\ asm_next = k =>
                          ModuleUses(StaticLoadRequirement)
                              \subseteq asm_components)
    /\ (OrderOfTheTest ~> pc_asm = "done")

C13_Witness ==
    /\ OrderOfTheTest
    /\ pc_asm = "done"
    /\ asm_next = Len(ModulesToAdd) + 1
    /\ {"LOAD_ZONES", "TMPS", "LZ_Load_in_Tmp"} \subseteq asm_components

(***************************************************************************)
(* Properties of writing and loading the inputs.                           *)
(***************************************************************************)
\* write_model_inputs has run and the run went on to its end
WrittenAndLoaded ==
    /\ paths.written # {}
    /\ pc_load \in {"load_failed", "instance", "error"}

\* C14: for the same directories the files load_model_data reads are the
\* files write_model_inputs wrote, and after both have run every row
\* (load_zone, timepoint, load_component, load_mw) of the load query is the
\* value of component_static_load_mw at (load_zone, timepoint,
\* load_component).
C14_QueryRowsAreTheLoadedValues ==
    /\ (paths.written # {} /\ paths.read # {}) => paths.read = paths.written
    /\ WrittenAndLoaded =>
           /\ pc_load = "instance"
           /\ \A i \in DOMAIN db_loads :
                  /\ i \in DOMAIN component_static_load_mw
                  /\ Some(component_static_load_mw[i]) = db_loads[i]

(***************************************************************************)
(* Properties of the operational timepoints of transmission lines.         *)
(***************************************************************************)
\* C15: in an instance, a line and a timepoint are in TX_OPR_TMPS exactly
\* when the period of the timepoint is an operational period of the line,
\* and a line is in TX_LINES_OPR_IN_TMP of a timepoint exactly when the
\* pair is in TX_OPR_TMPS.
C15_OperationalTimepointsOfLines ==
    pc_txo = "instance" =>
        \A tx \in TX_LINES, tmp \in TIMEPOINTS :
            /\ <<tx, tmp>> \in TX_OPR_TMPS
                   <=> period[tmp] \in OPR_PRDS_BY_TX_LINE[tx]
            /\ tx \in TX_LINES_OPR_IN_TMP[tmp]
                   <=> <<tx, tmp>> \in TX_OPR_TMPS

\* one line is operational in both periods, the other in 2030 only
C15_Witness ==
    /\ pc_txo = "instance"
    /\ period = [tmp \in TIMEPOINTS |-> tmp \div 10000]
    /\ OPR_PRDS_BY_TX_LINE["Tx1"] = {2020, 2030}
    /\ OPR_PRDS_BY_TX_LINE["Tx_New"] = {2030}
    /\ TX_LINES_OPR_IN_TMP[20200101] = {"Tx1"}
    /\ TX_LINES_OPR_IN_TMP[20300101] = {"Tx1", "Tx_New"}
    /\ <<"Tx_New", 20200102>> \notin TX_OPR_TMPS

====
